---- MODULE Spec2Model ----
(***************************************************************************)
(* Rustle (src/main.rs): the feed controller RedditApp, its render thread  *)
(* (eframe::App::update) and the worker threads it spawns.  Every          *)
(* Arc<Mutex<..>> cell of RedditApp is a variable; a worker's position in   *)
(* its closure is the pc of its record in `workers`.                        *)
(***************************************************************************)
EXTENDS Integers, Sequences, FiniteSets, TLC

\* ------------------------------------------------------------------ bounds
\* Accepted commands (switch_feed, load_more, Save) in one run.
MaxCommands == 2
\* load_subreddits workers spawned in one run.
MaxSubLoads == 1
\* Posts in one fetched page: 0..MaxPage.
MaxPage == 1
\* Worker threads alive at once (a spawn waits for a thread to return).
MaxLive == 2
\* edits of the settings form that change the credentials in memory
MaxEdits == 1

\* --------------------------------------------------------------- constants
\* main.rs:978  distance_from_bottom < 1500.0
THRESHOLD == 1500
\* scroll distances a frame can report (below, just below, at the threshold)
Distances == {0, THRESHOLD - 1, THRESHOLD}

\* Option<T>: None, Some(x)
None == <<>>
Some(x) == <<x>>

HOME == "home"
\* what a successful GET /subreddits/mine/subscriber returns (a failed one leaves
\* the list empty)
SubscribedLists == {<<"rust", "golang">>, <<"home">>}
\* the access token of a successful authenticate (main.rs:139)
Token == "access_token"
\* Some("".to_string()) of main.rs:990; the cursor of worker w's page is Some(w)
EmptyCursor == Some(0)

ErrCreate == "Failed to create client"
ErrAuth == "Authentication error"
ErrSubs == "Error fetching subreddits"
ErrPosts == "Error fetching posts"
ErrSave == "Failed to save settings"

\* the startup worker, the load_subreddits workers, one worker per command
WIds == 1..(1 + MaxSubLoads + MaxCommands)
FetchKinds == {"startup", "save", "switch", "more"}

VARIABLES
    \* RedditApp fields (main.rs:219-236)
    posts, loading, error_message, reddit_client, after, initial_load,
    scroll_to_top, show_settings, has_credentials, current_subreddit,
    subreddits, loading_subreddits, is_loading_more,
    settings,       \* self.settings: the credentials in memory, by version
    keyring,        \* the credentials in the store (Settings::load / save)
    \* threads
    workers,        \* worker id -> its closure's captured values and position
    timers,         \* pending cooldown threads (main.rs:999-1002)
    posts_lock,     \* worker holding the posts mutex across statements, or 0
    client_lock,    \* worker holding the reddit_client mutex across statements, or 0
    rpos,           \* render thread: 0 between frames, else the widget last passed
    loading_snap,   \* `let loading` of main.rs:698
    \* counters of the bounds
    commands, sub_loads,
    \* history (not program state): the last accepted command <<kind, key, worker>>,
    \* its outcome, the call dropped since, the next-cursor returned by the
    \* last successful fetch for the current feed, and the last call of a
    \* function of RedditClient: the response given to authenticate with what
    \* it returned, or a fetch with the requests it sent and what it returned
    hist

app == <<posts, loading, error_message, reddit_client, after, initial_load,
         scroll_to_top, show_settings, has_credentials, current_subreddit,
         subreddits, loading_subreddits, is_loading_more>>
vars == <<posts, loading, error_message, reddit_client, after, initial_load,
          scroll_to_top, show_settings, has_credentials, current_subreddit,
          subreddits, loading_subreddits, is_loading_more, settings, keyring,
          workers, timers, posts_lock, client_lock, rpos, loading_snap,
          commands, sub_loads, hist>>

creds == <<settings, keyring>>

Range(s) == {s[i] : i \in 1..Len(s)}

\* ------------------------------------------------------------------ workers
\* failed records that the closure took one of its error paths
Free == [kind |-> "free", pc |-> "free", key |-> "", after_token |-> None,
         new_after |-> None, failed |-> FALSE, settings |-> 0]

\* a closure that has returned
Done == [Free EXCEPT !.pc = "done"]

\* first statement of each spawned closure
StartPc(kind) == IF kind \in {"startup", "save"} THEN "auth" ELSE "acquire"

NewWorker(kind, key, tok) ==
    [kind |-> kind, pc |-> StartPc(kind), key |-> key, after_token |-> tok,
     new_after |-> None, failed |-> FALSE, settings |-> settings]

\* thread::spawn: the id of the next worker thread
NextId == 1 + Cardinality({w \in WIds : workers[w].pc # "free"})

\* the worker threads that have not returned
Live == {w \in WIds : workers[w].pc \notin {"free", "done"}}

Spawn(kind, key, tok) == [workers EXCEPT ![NextId] = NewWorker(kind, key, tok)]

\* a page of n posts fetched by worker w for feed key, in API return order
Page(key, w, n) == [i \in 1..n |-> <<key, w, i>>]

\* a listing-fetch worker that has not yet published its result (cleared loading)
InFlight(w) ==
    /\ workers[w].kind \in FetchKinds
    /\ workers[w].pc # "clr_initial"

InFlightSet == {w \in WIds : InFlight(w)}

\* history: an accepted command, a dropped call, the outcome of worker w
HistAccept(kind, key) ==
    [hist EXCEPT !.cmd = Some(<<kind, key, NextId>>), !.outcome = "", !.dropped = None]
HistDrop(op, key) == [hist EXCEPT !.dropped = Some(<<op, key>>)]
HistOutcome(w, r) ==
    IF hist.cmd # None /\ hist.cmd[1][3] = w THEN [hist EXCEPT !.outcome = r] ELSE hist

\* ---------------------------------------------------------------------- Init
\* RedditApp::new (main.rs:276-301) followed by main's startup spawn (1140-1189)
Init ==
    /\ has_credentials \in BOOLEAN
    /\ posts = <<>>
    /\ loading = has_credentials
    /\ error_message = None
    /\ reddit_client = None
    /\ after = None
    /\ initial_load = has_credentials
    /\ scroll_to_top = TRUE
    /\ show_settings = ~has_credentials
    /\ current_subreddit = HOME
    /\ settings = 0
    /\ keyring = 0
    /\ subreddits = <<>>
    /\ loading_subreddits = FALSE
    /\ is_loading_more = FALSE
    /\ workers = [w \in WIds |->
                    IF has_credentials /\ w = 1 THEN NewWorker("startup", HOME, None)
                    ELSE Free]
    /\ timers = 0
    /\ posts_lock = 0
    /\ client_lock = 0
    /\ rpos = 0
    /\ loading_snap = FALSE
    /\ commands = 0
    /\ sub_loads = 0
    /\ hist = [cmd |-> IF has_credentials THEN Some(<<"startup", HOME, 1>>) ELSE None,
               outcome |-> "", dropped |-> None, returned |-> None,
               auth |-> None, fetch |-> None]

\* ------------------------------------------------ controller entry points
\* a switch_subreddit without its guard (mutation of switch_busy)
switch_never_busy == FALSE

\* main.rs:597-599  if *self.loading.lock().unwrap() { return; }
switch_busy == loading

\* a load_more_posts without its guard (mutation of load_more_busy)
load_more_never_busy == FALSE

\* main.rs:373-375  if *self.loading.lock().unwrap() { return; }
load_more_busy == loading

\* main.rs:601-606: the cells switch_subreddit writes before spawning
switch_reset(subreddit) ==
    /\ current_subreddit' = subreddit
    /\ loading' = TRUE
    /\ after' = None
    /\ error_message' = None
    /\ initial_load' = TRUE
    /\ scroll_to_top' = TRUE

\* RedditApp::switch_subreddit (main.rs:596-616), up to thread::spawn
switch_subreddit(subreddit) ==
    IF switch_busy
    THEN /\ hist' = HistDrop("switch", subreddit)
         /\ UNCHANGED <<current_subreddit, loading, after, error_message,
                        initial_load, scroll_to_top, workers, commands>>
    ELSE /\ commands < MaxCommands /\ Cardinality(Live) < MaxLive
         /\ switch_reset(subreddit)
         /\ workers' = Spawn("switch", subreddit, None)
         /\ commands' = commands + 1
         /\ hist' = [HistAccept("switch", subreddit) EXCEPT !.returned = None]

\* a refresh that always reloads the home feed (mutation of refresh_posts)
refresh_posts_home == switch_subreddit(HOME)

\* RedditApp::refresh_posts (main.rs:517-520)
refresh_posts == switch_subreddit(current_subreddit)

\* RedditApp::load_more_posts (main.rs:372-389), up to thread::spawn; cur_after
\* is the content of self.after when line 378 reads it
load_more_posts(cur_after) ==
    IF load_more_busy
    THEN /\ hist' = HistDrop("more", current_subreddit)
         /\ UNCHANGED <<loading, workers, commands>>
    ELSE /\ commands < MaxCommands /\ Cardinality(Live) < MaxLive
         /\ loading' = TRUE
         /\ workers' = Spawn("more", current_subreddit, cur_after)
         /\ commands' = commands + 1
         /\ hist' = HistAccept("more", current_subreddit)

\* RedditApp::load_subreddits (main.rs:541-553), up to thread::spawn
load_subreddits ==
    IF loading_subreddits
    THEN UNCHANGED <<loading_subreddits, workers, sub_loads>>
    ELSE /\ sub_loads < MaxSubLoads /\ Cardinality(Live) < MaxLive
         /\ loading_subreddits' = TRUE
         /\ workers' = Spawn("subs", "", None)
         /\ sub_loads' = sub_loads + 1

locks == <<posts_lock, client_lock>>
render == <<rpos, loading_snap>>
counters == <<commands, sub_loads>>

\* ------------------------------------------------------------ render thread
\* handle_scroll_state (main.rs:522-539): the new value of scroll_to_top
handle_scroll_state ==
    \/ scroll_to_top
    \/ error_message \in {Some(ErrPosts), Some(ErrAuth)}
    \/ (posts = <<>> /\ ~show_settings)

\* a trigger that does not ask for credentials (mutation of subs_trigger)
subs_trigger_unguarded == subreddits = <<>> /\ ~loading_subreddits

\* main.rs:703-704: the condition of the load_subreddits trigger
subs_trigger == has_credentials /\ subreddits = <<>> /\ ~loading_subreddits

\* update, main.rs:675-706, when the trigger fires: handle_scroll_state, the
\* snapshot of loading and load_subreddits.  Line 531 takes the posts mutex.
FrameBegin ==
    /\ rpos = 0
    /\ posts_lock = 0
    /\ subs_trigger
    /\ scroll_to_top' = handle_scroll_state
    /\ loading_snap' = loading
    /\ rpos' = 1
    /\ load_subreddits
    /\ UNCHANGED <<posts, loading, error_message, reddit_client, after, initial_load,
                   show_settings, has_credentials, current_subreddit, subreddits,
                   is_loading_more, timers, locks, commands, hist>>
    /\ UNCHANGED creds

\* A frame whose trigger does not fire runs lines 675-706 (handle_scroll_state
\* and the snapshot, no write to a shared cell but scroll_to_top) in the step
\* of its first widget: the frame is under way, or starts now.
InFrame == rpos >= 1 \/ (rpos = 0 /\ posts_lock = 0 /\ ~subs_trigger)

\* `let loading` of main.rs:698 as this frame holds it
loading_now == IF rpos = 0 THEN loading ELSE loading_snap

\* scroll_to_top after line 690 of this frame
scroll_now == IF rpos = 0 THEN handle_scroll_state ELSE scroll_to_top

\* update, main.rs:723-736: the refresh button, clicked
RefreshClick ==
    /\ InFrame /\ rpos \in 0..1
    /\ has_credentials /\ ~show_settings /\ ~loading_now
    /\ refresh_posts
    /\ rpos' = 2
    /\ loading_snap' = loading_now
    /\ UNCHANGED <<posts, reddit_client, show_settings, has_credentials, subreddits,
                   loading_subreddits, is_loading_more, timers, locks, sub_loads>>
    /\ UNCHANGED creds

\* update, main.rs:745-760: the settings button, clicked
SettingsClick ==
    /\ InFrame /\ rpos \in 0..2
    /\ has_credentials
    /\ show_settings' = ~show_settings
    /\ error_message' = (IF ~show_settings THEN None ELSE error_message)
    /\ scroll_to_top' = scroll_now
    /\ rpos' = 3
    /\ loading_snap' = loading_now
    /\ UNCHANGED <<posts, loading, reddit_client, after, initial_load,
                   has_credentials, current_subreddit, subreddits, loading_subreddits,
                   is_loading_more, workers, timers, locks, counters, hist>>
    /\ UNCHANGED creds

\* update, main.rs:773-802: the links of the navigation bar, the home link
\* first, then one per entry of subreddits
feed_list == <<HOME>> \o subreddits

\* update, main.rs:766-804: a feed link of the navigation bar, clicked
NavClick(subreddit) ==
    /\ InFrame /\ rpos \in 0..3
    /\ has_credentials /\ ~show_settings
    /\ subreddit \in {HOME} \cup Range(subreddits)
    /\ ~loading_now /\ current_subreddit # subreddit
    /\ switch_subreddit(subreddit)
    /\ rpos' = 4
    /\ loading_snap' = loading_now
    /\ UNCHANGED <<posts, reddit_client, show_settings, has_credentials, subreddits,
                   loading_subreddits, is_loading_more, timers, locks, sub_loads>>
    /\ UNCHANGED creds

\* update, main.rs:814-927: the settings form shown, no button clicked
FormShown ==
    /\ InFrame
    /\ show_settings
    /\ scroll_to_top' = scroll_now
    /\ rpos' = 0
    /\ loading_snap' = FALSE
    /\ UNCHANGED <<posts, loading, error_message, reddit_client, after, initial_load,
                   show_settings, has_credentials, current_subreddit, subreddits,
                   loading_subreddits, is_loading_more, workers, timers, locks,
                   counters, hist>>
    /\ UNCHANGED creds

\* update, main.rs:859-887: a credential field of the form is edited; the
\* TextEdit writes self.settings
FormEdit ==
    /\ InFrame
    /\ show_settings
    /\ settings < MaxEdits
    /\ settings' = settings + 1
    /\ scroll_to_top' = scroll_now
    /\ rpos' = 0
    /\ loading_snap' = FALSE
    /\ UNCHANGED <<posts, loading, error_message, reddit_client, after, initial_load,
                   show_settings, has_credentials, current_subreddit, subreddits,
                   loading_subreddits, is_loading_more, keyring, workers, timers,
                   locks, counters, hist>>

\* update, main.rs:899-905: Cancel
CancelClick ==
    /\ InFrame
    /\ show_settings /\ has_credentials
    /\ settings' = keyring
    /\ UNCHANGED keyring
    /\ show_settings' = FALSE
    /\ scroll_to_top' = scroll_now
    /\ rpos' = 0
    /\ loading_snap' = FALSE
    /\ UNCHANGED <<posts, loading, error_message, reddit_client, after, initial_load,
                   has_credentials, current_subreddit, subreddits,
                   loading_subreddits, is_loading_more, workers, timers, locks,
                   counters, hist>>

\* RedditApp::authenticate_and_load (main.rs:450-460), up to thread::spawn
authenticate_and_load ==
    /\ commands < MaxCommands /\ Cardinality(Live) < MaxLive
    /\ workers' = Spawn("save", HOME, None)
    /\ commands' = commands + 1
    /\ hist' = HistAccept("save", HOME)

\* update, main.rs:906-919: Save; Settings::save (267-272) can fail
SaveClick ==
    /\ InFrame
    /\ show_settings
    /\ rpos' = 0
    /\ loading_snap' = FALSE
    /\ UNCHANGED settings
    /\ \/ /\ error_message' = Some(ErrSave)
          /\ scroll_to_top' = scroll_now
          /\ UNCHANGED <<loading, initial_load, show_settings,
                         has_credentials, workers, commands, hist, keyring>>
       \/ /\ keyring' = settings
          /\ show_settings' = FALSE
          /\ has_credentials' = TRUE
          /\ error_message' = None
          /\ loading' = TRUE
          /\ initial_load' = TRUE
          /\ scroll_to_top' = TRUE
          /\ authenticate_and_load
    /\ UNCHANGED <<posts, reddit_client, after, current_subreddit, subreddits,
                   loading_subreddits, is_loading_more, timers, locks, sub_loads>>

\* a scroll trigger that ignores the cooldown flag (mutation of near_bottom)
near_bottom_no_cooldown(distance) == ~loading_now /\ distance < THRESHOLD

\* main.rs:977-979: the scroll trigger's condition
near_bottom(distance) ==
    ~loading_now /\ distance < THRESHOLD /\ ~is_loading_more

\* main.rs:984-992: the cursor after the check of line 986
sentinel_after ==
    IF after = None /\ posts # <<>> THEN EmptyCursor ELSE after

\* update, main.rs:929-1019: the main content (spinner, "No posts found.", or
\* the scroll area with the load-more trigger and its cooldown thread) of a
\* frame whose scroll area, if shown, is at `distance` from its bottom
MainFrame(distance) ==
    /\ InFrame
    /\ ~show_settings
    /\ rpos' = 0
    /\ loading_snap' = FALSE
    /\ IF initial_load /\ loading_now
       THEN /\ scroll_to_top' = scroll_now
            /\ UNCHANGED <<is_loading_more, after, loading, workers, commands,
                           timers, hist>>
       ELSE /\ posts_lock = 0
            /\ IF posts = <<>>
               THEN /\ scroll_to_top' = scroll_now
                    /\ UNCHANGED <<is_loading_more, after, loading, workers,
                                   commands, timers, hist>>
               ELSE /\ scroll_to_top' = FALSE
                    /\ IF near_bottom(distance)
                       THEN /\ is_loading_more' = TRUE
                            /\ after' = sentinel_after
                            /\ load_more_posts(sentinel_after)
                            /\ timers' = timers + 1
                       ELSE UNCHANGED <<is_loading_more, after, loading, workers,
                                        commands, timers, hist>>
    /\ UNCHANGED <<posts, error_message, reddit_client, initial_load, show_settings,
                   has_credentials, current_subreddit, subreddits, loading_subreddits,
                   locks, sub_loads>>
    /\ UNCHANGED creds

\* the main content, at any distance the frame can report
MainContent == \E distance \in Distances : MainFrame(distance)

\* a cooldown thread that returns without its write (mutation of TimerFire)
TimerFire_keeping_flag ==
    /\ timers > 0
    /\ UNCHANGED is_loading_more
    /\ timers' = timers - 1
    /\ UNCHANGED <<posts, loading, error_message, reddit_client, after, initial_load,
                   scroll_to_top, show_settings, has_credentials, current_subreddit,
                   subreddits, loading_subreddits, workers, locks, render, counters,
                   hist>>
    /\ UNCHANGED creds

\* the cooldown thread of main.rs:999-1002, after its sleep
TimerFire ==
    /\ timers > 0
    /\ is_loading_more' = FALSE
    /\ timers' = timers - 1
    /\ UNCHANGED <<posts, loading, error_message, reddit_client, after, initial_load,
                   scroll_to_top, show_settings, has_credentials, current_subreddit,
                   subreddits, loading_subreddits, workers, locks, render, counters,
                   hist>>
    /\ UNCHANGED creds

\* ------------------------------------------------------------ worker threads
\* the mutexes worker w holds across statements are released when it returns
Release(w) ==
    /\ posts_lock' = (IF posts_lock = w THEN 0 ELSE posts_lock)
    /\ client_lock' = (IF client_lock = w THEN 0 ELSE client_lock)

\* what RedditClient::new followed by authenticate can yield (main.rs:97-141)
AuthOutcomes == {"ok", ErrCreate, ErrAuth}

\* startup worker main.rs:1153-1175, authenticate_and_load main.rs:463-485:
\* the client is built and authenticated, then stored under the mutex; the
\* startup worker takes the mutex again for its fetch (the guard of line 1175
\* lives to the end of the match), authenticate_and_load sets loading_subreddits
Authenticate(w) ==
    /\ workers[w].pc = "auth"
    /\ \E r \in AuthOutcomes :
         IF r = "ok"
         THEN /\ client_lock = 0
              /\ reddit_client' = Some(Token)
              /\ IF workers[w].kind = "startup"
                 THEN /\ client_lock' = w
                      /\ workers' = [workers EXCEPT ![w].pc = "fetch"]
                      /\ UNCHANGED loading_subreddits
                 ELSE /\ loading_subreddits' = TRUE
                      /\ workers' = [workers EXCEPT ![w].pc = "fetch_subs"]
                      /\ UNCHANGED client_lock
              /\ UNCHANGED <<error_message, hist>>
         ELSE /\ error_message' = Some(r)
              /\ workers' = [workers EXCEPT ![w].pc = "clr_loading",
                                            ![w].failed = TRUE]
              /\ hist' = HistOutcome(w, "err")
              /\ UNCHANGED <<reddit_client, client_lock, loading_subreddits>>
    /\ UNCHANGED <<posts, loading, after, initial_load, scroll_to_top, show_settings,
                   has_credentials, current_subreddit, subreddits,
                   is_loading_more, timers, posts_lock, render, counters>>
    /\ UNCHANGED creds

\* a worker that never finds a stored client (mutation of has_client)
has_client_never == FALSE

\* main.rs:394, 558, 621  if let Some(client) = client_guard.as_ref()
has_client == reddit_client # None

\* reddit_client.lock() of main.rs:392-396, 556-560, 619-623: a stored client
\* is cloned and the guard dropped; without one the guard is held across
\* authenticate
Acquire(w) ==
    /\ workers[w].pc = "acquire"
    /\ client_lock = 0
    /\ IF has_client
       THEN /\ UNCHANGED client_lock
            /\ workers' = [workers EXCEPT ![w].pc =
                              IF workers[w].kind = "subs" THEN "fetch_subs" ELSE "fetch"]
       ELSE /\ client_lock' = w
            /\ workers' = [workers EXCEPT ![w].pc = "auth_locked"]
    /\ UNCHANGED <<app, timers, posts_lock, render, counters, hist>>
    /\ UNCHANGED creds

\* lazy authentication under the reddit_client guard: main.rs:397-417,
\* 561-579, 624-644
AuthLocked(w) ==
    /\ workers[w].pc = "auth_locked"
    /\ \E r \in AuthOutcomes :
         IF r = "ok"
         THEN /\ reddit_client' = Some(Token)
              /\ client_lock' = 0
              /\ workers' = [workers EXCEPT ![w].pc =
                                IF workers[w].kind = "subs" THEN "fetch_subs" ELSE "fetch"]
              /\ UNCHANGED <<error_message, hist>>
         ELSE /\ error_message' = Some(r)
              /\ workers' = [workers EXCEPT ![w].failed = TRUE, ![w].pc =
                                IF workers[w].kind = "subs" THEN "clr_ls" ELSE "clr_loading"]
              /\ hist' = HistOutcome(w, "err")
              /\ UNCHANGED <<reddit_client, client_lock>>
    /\ UNCHANGED <<posts, loading, after, initial_load, scroll_to_top, show_settings,
                   has_credentials, current_subreddit, subreddits, loading_subreddits,
                   is_loading_more, timers, posts_lock, render, counters>>
    /\ UNCHANGED creds

\* get_subscribed_subreddits and the first write of its arm: main.rs:486-492,
\* 582-588
FetchSubs(w) ==
    /\ workers[w].pc = "fetch_subs"
    /\ \/ \E l \in SubscribedLists :
            /\ subreddits' = l
            /\ workers' = [workers EXCEPT ![w].pc = "clr_ls"]
            /\ UNCHANGED <<error_message, hist>>
       \/ /\ error_message' = Some(ErrSubs)
          /\ workers' = [workers EXCEPT ![w].failed = TRUE, ![w].pc =
                            IF workers[w].kind = "subs" THEN "clr_ls" ELSE "clr_ls_err"]
          /\ hist' = HistOutcome(w, "err")
          /\ UNCHANGED subreddits
    /\ UNCHANGED <<posts, loading, reddit_client, after, initial_load, scroll_to_top,
                   show_settings, has_credentials, current_subreddit,
                   loading_subreddits, is_loading_more, timers, locks, render,
                   counters>>
    /\ UNCHANGED creds

\* *loading_subreddits.lock().unwrap() = false: main.rs:489, 493, 565, 573,
\* 585, 589; a load_subreddits worker then returns
ClearLoadingSubs(w) ==
    /\ workers[w].pc \in {"clr_ls", "clr_ls_err"}
    /\ loading_subreddits' = FALSE
    /\ IF workers[w].kind = "subs"
       THEN /\ workers' = [workers EXCEPT ![w] = Done]
            /\ Release(w)
       ELSE /\ workers' = [workers EXCEPT ![w].pc =
                              IF workers[w].pc = "clr_ls_err" THEN "clr_loading"
                              ELSE "fetch"]
            /\ UNCHANGED locks
    /\ UNCHANGED <<posts, loading, error_message, reddit_client, after, initial_load,
                   scroll_to_top, show_settings, has_credentials, current_subreddit,
                   subreddits, is_loading_more, timers, render, counters, hist>>
    /\ UNCHANGED creds

\* a load-more Ok arm that always replaces the list (mutation of more_posts)
more_posts_replaced(after_token, old, fetched_posts) == fetched_posts

\* main.rs:429-435: replace only when starting fresh with no posts, else append
more_posts(after_token, old, fetched_posts) ==
    IF after_token = None /\ old = <<>> THEN fetched_posts ELSE old \o fetched_posts

\* every Ok arm appending to the list (mutation of stored_posts)
stored_posts_appended(w, fetched_posts) == posts \o fetched_posts

\* the post list a successful fetch of worker w stores: main.rs:428-435 (load
\* more), 655-656 (switch), 503 (Save), 1177 (startup)
stored_posts(w, fetched_posts) ==
    IF workers[w].kind = "more"
    THEN more_posts(workers[w].after_token, posts, fetched_posts)
    ELSE fetched_posts

\* get_home_feed / get_subreddit_posts returned Ok((new_posts, new_after)) with
\* n posts, and the first write of the Ok arm: main.rs:427-435, 503, 655-656,
\* 1177.  load_more_posts keeps the posts guard of line 428 to the end of the arm.
FetchOk(w, n, new_after) ==
    /\ workers[w].pc = "fetch"
    /\ posts_lock = 0
    /\ posts' = stored_posts(w, Page(workers[w].key, w, n))
    /\ workers' = [workers EXCEPT ![w].new_after = new_after,
                      ![w].pc = IF workers[w].kind \in {"switch", "more"}
                                THEN "ok_after" ELSE "clr_loading"]
    /\ hist' = [HistOutcome(w, "ok") EXCEPT !.returned =
                   IF workers[w].key = current_subreddit
                   THEN new_after ELSE hist.returned]
    /\ posts_lock' = (IF workers[w].kind = "more" THEN w ELSE posts_lock)
    /\ UNCHANGED <<loading, error_message, reddit_client, after, initial_load,
                   scroll_to_top, show_settings, has_credentials, current_subreddit,
                   subreddits, loading_subreddits, is_loading_more, timers,
                   client_lock, render, counters>>
    /\ UNCHANGED creds

\* an Err arm that also empties the post list (mutation of FetchErr)
FetchErr_clearing_posts(w) ==
    /\ workers[w].pc = "fetch"
    /\ error_message' = Some(ErrPosts)
    /\ posts' = <<>>
    /\ workers' = [workers EXCEPT ![w].pc = "clr_loading", ![w].failed = TRUE]
    /\ hist' = HistOutcome(w, "err")
    /\ UNCHANGED <<loading, reddit_client, after, initial_load, scroll_to_top,
                   show_settings, has_credentials, current_subreddit, subreddits,
                   loading_subreddits, is_loading_more, timers, locks, render,
                   counters>>
    /\ UNCHANGED creds

\* the fetch returned Err(e), and the first write of the Err arm: main.rs:441,
\* 508, 664, 1182
FetchErr(w) ==
    /\ workers[w].pc = "fetch"
    /\ error_message' = Some(ErrPosts)
    /\ workers' = [workers EXCEPT ![w].pc = "clr_loading", ![w].failed = TRUE]
    /\ hist' = HistOutcome(w, "err")
    /\ UNCHANGED <<posts, loading, reddit_client, after, initial_load, scroll_to_top,
                   show_settings, has_credentials, current_subreddit, subreddits,
                   loading_subreddits, is_loading_more, timers, locks, render,
                   counters>>
    /\ UNCHANGED creds

\* the listing fetch of worker w completes: main.rs:420-445, 501-511, 647-668,
\* 1175-1186
FetchPosts(w) ==
    \/ \E n \in 0..MaxPage, new_after \in {None, Some(w)} : FetchOk(w, n, new_after)
    \/ FetchErr(w)

\* main.rs:436, 659  *after.lock().unwrap() = new_after
StoreAfter(w) ==
    /\ workers[w].pc = "ok_after"
    /\ after' = workers[w].new_after
    /\ workers' = [workers EXCEPT ![w].pc = "clr_loading", ![w].new_after = None]
    /\ UNCHANGED <<posts, loading, error_message, reddit_client, initial_load,
                   scroll_to_top, show_settings, has_credentials, current_subreddit,
                   subreddits, loading_subreddits, is_loading_more, timers, locks,
                   render, counters, hist>>
    /\ UNCHANGED creds

\* a worker that leaves loading as it is (mutation of ClearLoading)
ClearLoading_skipped(w) ==
    /\ workers[w].pc = "clr_loading"
    /\ workers' = [workers EXCEPT ![w].pc = "clr_initial"]
    /\ UNCHANGED <<posts, loading, error_message, reddit_client, after, initial_load,
                   scroll_to_top, show_settings, has_credentials, current_subreddit,
                   subreddits, loading_subreddits, is_loading_more, timers, locks,
                   render, counters, hist>>
    /\ UNCHANGED creds

\* *loading.lock().unwrap() = false: main.rs:401, 410, 437, 442, 467, 477,
\* 494, 504, 509, 628, 637, 660, 665, 1157, 1167, 1178, 1183
ClearLoading(w) ==
    /\ workers[w].pc = "clr_loading"
    /\ loading' = FALSE
    /\ workers' = [workers EXCEPT ![w].pc = "clr_initial"]
    /\ UNCHANGED <<posts, error_message, reddit_client, after, initial_load,
                   scroll_to_top, show_settings, has_credentials, current_subreddit,
                   subreddits, loading_subreddits, is_loading_more, timers, locks,
                   render, counters, hist>>
    /\ UNCHANGED creds

\* *initial_load.lock().unwrap() = false, the closure's last statement:
\* main.rs:402, 411, 438, 443, 468, 478, 495, 505, 510, 629, 638, 661, 666,
\* 1158, 1168, 1179, 1184
ClearInitialLoad(w) ==
    /\ workers[w].pc = "clr_initial"
    /\ initial_load' = FALSE
    /\ workers' = [workers EXCEPT ![w] = Done]
    /\ Release(w)
    /\ UNCHANGED <<posts, loading, error_message, reddit_client, after,
                   scroll_to_top, show_settings, has_credentials, current_subreddit,
                   subreddits, loading_subreddits, is_loading_more, timers, render,
                   counters, hist>>
    /\ UNCHANGED creds

\* one step of a worker thread
WorkerStep ==
    \E w \in WIds :
        \/ Authenticate(w)
        \/ Acquire(w)
        \/ AuthLocked(w)
        \/ FetchSubs(w)
        \/ ClearLoadingSubs(w)
        \/ FetchPosts(w)
        \/ StoreAfter(w)
        \/ ClearLoading(w)
        \/ ClearInitialLoad(w)

\* the feed commands of the render thread: refresh, feed links, scroll trigger
FeedStep ==
    \/ FrameBegin
    \/ RefreshClick
    \/ \E subreddit \in {HOME, "rust", "golang"} : NavClick(subreddit)
    \/ MainContent
    \/ TimerFire

\* the settings form
SettingsStep ==
    \/ SettingsClick
    \/ FormShown
    \/ CancelClick
    \/ SaveClick

Next == FeedStep \/ SettingsStep \/ WorkerStep

Spec == Init /\ [][Next]_vars

\* the controller driven by switch_feed, load_more and refresh alone
NextFeed == FeedStep \/ WorkerStep

SpecFeed == Init /\ [][NextFeed]_vars

\* the controller with the edits of the settings form, without the feed links
\* and within the sleep of the cooldown threads
NextSettings ==
    \/ FrameBegin
    \/ RefreshClick
    \/ MainContent
    \/ SettingsStep
    \/ FormEdit
    \/ WorkerStep

SpecSettings == Init /\ [][NextSettings]_vars

\* ------------------------------------------------ RedditClient::authenticate
\* HTTP statuses of the token endpoint's response
Statuses == {200, 401, 403}

\* main.rs:126  status.is_success()
is_success(status) == status \in 200..299

\* a field of the response's JSON object: missing, a string, or another type
Absent == [type |-> "absent", value |-> ""]
Str(s) == [type |-> "string", value |-> s]
Num(s) == [type |-> "number", value |-> s]

ErrorFields == {Absent, Str("invalid_grant"), Str("unsupported_grant_type"), Num("401")}
TokenFields == {Absent, Str(Token), Str("access_token_2"), Num("0")}

\* the responses: a body that is no JSON object, or an object with its "error"
\* and "access_token" fields
Responses ==
    {[status |-> s, body |-> "text", error |-> Absent, access_token |-> Absent] :
        s \in Statuses}
    \cup [status : Statuses, body : {"object"}, error : ErrorFields,
          access_token : TokenFields]

\* what authenticate returns: Ok(()) or one of its three errors
AuthOk == [kind |-> "Ok", status |-> 0, message |-> ""]
\* main.rs:129  "Reddit API error: {}"
ProviderRejected(e) == [kind |-> "Reddit API error", status |-> 0, message |-> e]
\* main.rs:132  "Authentication failed with status: {}"
HttpStatus(s) ==
    [kind |-> "Authentication failed with status", status |-> s, message |-> ""]
\* main.rs:137  "Failed to parse authentication response"
ParseFailed ==
    [kind |-> "Failed to parse authentication response", status |-> 0, message |-> ""]

\* RedditClient::authenticate from the response on (main.rs:122-141)
authenticate(resp) ==
    IF ~is_success(resp.status)
    THEN IF resp.body = "object" /\ resp.error.type = "string"
         THEN ProviderRejected(resp.error.value)
         ELSE HttpStatus(resp.status)
    ELSE IF resp.body = "object" /\ resp.access_token.type = "string"
         THEN AuthOk
         ELSE ParseFailed

\* an authenticate that drops the token when it fails (mutation of
\* access_token_after)
access_token_after_reset(token, resp) ==
    IF authenticate(resp) = AuthOk THEN Some(resp.access_token.value) ELSE None

\* self.access_token once authenticate has returned: written by line 139
\* alone, which every error return of lines 120-137 precedes
access_token_after(token, resp) ==
    IF authenticate(resp) = AuthOk THEN Some(resp.access_token.value) ELSE token

\* a call of authenticate that receives resp, on the client the caller stores
\* (main.rs:415, 485, 642, 1172)
AuthenticateResponse(resp) ==
    /\ hist' = [hist EXCEPT !.fetch = None, !.auth =
                   Some([response |-> resp, result |-> authenticate(resp)])]
    /\ reddit_client' = access_token_after(reddit_client, resp)
    /\ UNCHANGED <<posts, loading, error_message, after, initial_load, scroll_to_top,
                   show_settings, has_credentials, current_subreddit, subreddits,
                   loading_subreddits, is_loading_more, workers, timers, locks,
                   render, counters>>
    /\ UNCHANGED creds

NextAuth == \E resp \in Responses : AuthenticateResponse(resp)

\* authenticate applied to every response
SpecAuth == Init /\ [][NextAuth]_vars

\* ---------------------------------- RedditClient: listing and subscription fetch
\* the answers to a GET: send() failed, or a status with a body that is
\* undecodable or a listing of n children with its "after"
FetchResponses ==
    {[status |-> 0, body |-> "no_response", n |-> 0, after |-> None]}
    \cup {[status |-> s, body |-> "text", n |-> 0, after |-> None] : s \in Statuses}
    \cup [status : Statuses, body : {"listing"}, n : 0..MaxPage,
          after : {None, Some(1)}]

\* a fetch that skips the token check (mutation of has_access_token)
has_access_token_always(token) == TRUE

\* main.rs:144-145, 169-170, 194-195  self.access_token.as_ref().context(..)?
has_access_token(token) == token # None

\* the URLs: main.rs:147-150, 172-175, 197
home_url(after_token) == <<"https://oauth.reddit.com/", after_token>>
subreddit_url(subreddit, after_token) ==
    <<"https://oauth.reddit.com/r/", subreddit, after_token>>
subscriber_url == <<"https://oauth.reddit.com/subreddits/mine/subscriber">>

\* what a fetch returns: Ok with its value, or one of four errors
FetchResult(kind, status, value, new_after) ==
    [kind |-> kind, status |-> status, value |-> value, after |-> new_after]
NotAuthenticated == FetchResult("Not authenticated", 0, <<>>, None)
SendFailed == FetchResult("send", 0, <<>>, None)
FetchFailed(status) == FetchResult("Failed to fetch", status, <<>>, None)
ParseListingFailed == FetchResult("Failed to parse", 0, <<>>, None)

\* the common body of the three fetch functions (main.rs:143-166, 168-191,
\* 193-216): the requests sent and the value returned, given the token the
\* client holds, the URL, the server's answer and the decoded Ok value
get(token, url, resp, ok) ==
    IF ~has_access_token(token)
    THEN [requests |-> <<>>, result |-> NotAuthenticated]
    ELSE [requests |-> <<[url |-> url, bearer |-> token]>>,
          result |-> IF resp.body = "no_response" THEN SendFailed
                     ELSE IF ~is_success(resp.status) THEN FetchFailed(resp.status)
                     ELSE IF resp.body # "listing" THEN ParseListingFailed
                     ELSE ok]

\* RedditClient::get_home_feed (main.rs:143-166)
get_home_feed(token, after_token, resp) ==
    get(token, home_url(after_token), resp,
        FetchResult("Ok", 0, Page(HOME, 1, resp.n), resp.after))

\* RedditClient::get_subreddit_posts (main.rs:168-191)
get_subreddit_posts(token, subreddit, after_token, resp) ==
    get(token, subreddit_url(subreddit, after_token), resp,
        FetchResult("Ok", 0, Page(subreddit, 1, resp.n), resp.after))

\* RedditClient::get_subscribed_subreddits (main.rs:193-216)
get_subscribed_subreddits(token, resp) ==
    get(token, subscriber_url, resp,
        FetchResult("Ok", 0, SubSeq(<<"rust", "golang">>, 1, resp.n), None))

\* a call of one of the fetch functions on the client, answered by resp; the
\* functions take &self
FetchCall(fn, after_token, resp) ==
    /\ hist' = [hist EXCEPT !.auth = None, !.fetch =
          Some([fn |-> fn, token |-> reddit_client, after |-> after_token,
                response |-> resp,
                call |-> CASE fn = "get_home_feed" ->
                                  get_home_feed(reddit_client, after_token, resp)
                           [] fn = "get_subreddit_posts" ->
                                  get_subreddit_posts(reddit_client, "rust",
                                                      after_token, resp)
                           [] OTHER ->
                                  get_subscribed_subreddits(reddit_client, resp)])]
    /\ UNCHANGED <<app, workers, timers, locks, render, counters>>
    /\ UNCHANGED creds

NextClient ==
    \/ \E resp \in Responses : AuthenticateResponse(resp)
    \/ \E fn \in {"get_home_feed", "get_subreddit_posts"},
          after_token \in {None, Some(1)}, resp \in FetchResponses :
            FetchCall(fn, after_token, resp)
    \/ \E resp \in FetchResponses :
            FetchCall("get_subscribed_subreddits", None, resp)

\* a RedditClient driven through authenticate and its fetch functions
SpecClient == Init /\ [][NextClient]_vars

\* ------------------------------------------------------------------- claims
\* a step that starts a listing-fetch worker thread
SpawnsFetch == \E w \in WIds : workers[w].pc = "free" /\ workers'[w].kind \in FetchKinds

\* C1 (P1 single-flight): under switch_subreddit, load_more_posts and
\* refresh_posts calls in any interleaving, at most one listing-fetch worker is
\* in flight in every state, and no step taken while the loading flag is set
\* starts a listing-fetch worker.
C1_SingleFlight ==
    /\ [](Cardinality(InFlightSet) <= 1)
    /\ [][loading => ~SpawnsFetch]_vars

\* C1 case: a call arrived while loading was set and was dropped, one fetch in flight
C1_Witness == hist.dropped # None /\ Cardinality(InFlightSet) = 1

\* C2: counting the workers of every entry point (startup, Save, switch_subreddit,
\* load_more_posts), at most one listing-fetch worker is in flight in every state.
C2_OneFetchWorker == Cardinality(InFlightSet) <= 1

\* worker w takes a step that changes the post list or the cursor
WritesFeed(w) ==
    /\ workers[w].kind \in FetchKinds
    /\ workers'[w] # workers[w]
    /\ (posts' # posts \/ after' # after)

\* C3 (P3 stale-result discard): a fetch worker issued for feed key A (by
\* load_more_posts, switch_subreddit, authenticate_and_load or startup) changes
\* neither the post list nor the cursor in a step taken while the current feed
\* key is another key B.
C3_StaleDiscard ==
    [][\A w \in WIds : WritesFeed(w) => workers[w].key = current_subreddit]_vars

\* P2 of the feed contract: replace only on a fresh load (no cursor, empty list)
replace_or_append(w, fetched_posts) ==
    IF workers[w].after_token = None /\ posts = <<>>
    THEN fetched_posts
    ELSE posts \o fetched_posts

\* C4 (P2 replace-vs-append): when a fetch of any worker completes successfully,
\* the post list becomes the fetched page only if the fetch was issued with no
\* cursor and the list is empty; otherwise it becomes the previous list followed
\* by the fetched posts in return order.
C4_ReplaceVsAppend ==
    [][\A w \in WIds : \A n \in 0..MaxPage, new_after \in {None, Some(w)} :
          FetchOk(w, n, new_after) =>
              posts' = replace_or_append(w, Page(workers[w].key, w, n))]_vars

\* the last accepted command is the switch of worker w and its fetch succeeded
SwitchSucceeded(w) ==
    /\ hist.cmd = Some(<<"switch", workers[w].key, w>>)
    /\ hist.outcome = "ok"

\* C5 (P4 cursor reset): from an accepted switch_subreddit until its fetch
\* completes the stored cursor is None in every state, whatever render frames
\* and scroll checks run in between; once the fetch has completed successfully
\* and stored its cursor, the cursor is the one the fetch returned.
C5_CursorReset ==
    \A w \in WIds : workers[w].kind = "switch" =>
        /\ workers[w].pc \in {"acquire", "auth_locked", "fetch"} => after = None
        /\ (workers[w].pc \in {"clr_loading", "clr_initial"} /\ SwitchSucceeded(w))
               => after = hist.returned

\* C6: in every state with no fetch in flight, the stored cursor is the
\* next-cursor returned by the most recent successful listing fetch for the
\* current feed key (startup and Save included), or None when none has completed
\* since the last switch; no other value is ever stored.
C6_CursorIsReturned == InFlightSet = {} => after = hist.returned

\* a step in which switch_subreddit is accepted and spawns worker w
AcceptsSwitch(w) == workers[w].pc = "free" /\ workers'[w].kind = "switch"

\* C7: right after an accepted switch_subreddit(key) returns, the current feed
\* key is key, the post list is empty, the cursor is None, the error is absent
\* and the loading and initial-load flags are both set.
C7_SwitchResets ==
    [][\A w \in WIds : AcceptsSwitch(w) =>
          /\ current_subreddit' = workers'[w].key
          /\ posts' = <<>>
          /\ after' = None
          /\ error_message' = None
          /\ loading' /\ initial_load']_vars

\* the last accepted command is the switch of worker w and it failed
SwitchFailed(w) ==
    /\ hist.cmd = Some(<<"switch", workers[w].key, w>>)
    /\ hist.outcome = "err"

\* C8: when the fetch or the lazy authentication of an accepted switch_subreddit
\* has failed, the error is stored and the post list is empty, whatever the
\* previous feed showed.
C8_SwitchFailure ==
    \A w \in WIds : (workers[w].kind = "switch" /\ SwitchFailed(w)) =>
        error_message # None /\ posts = <<>>

\* the controller is idle: no worker thread is running
Idle == Live = {}

\* Scenario C: switch_subreddit("rust") was accepted, and switch_subreddit("golang")
\* was called before its fetch completed
ScenarioC ==
    /\ hist.cmd # None
    /\ hist.cmd[1][1] = "switch" /\ hist.cmd[1][2] = "rust"
    /\ hist.dropped = Some(<<"switch", "golang">>)

\* the posts of the page fetched by worker w for feed key
OnlyPostsOf(key, w) == \A i \in 1..Len(posts) : posts[i][1] = key /\ posts[i][2] = w

\* C9 as stated (Scenario C): once idle again, the current feed key is "golang"
\* and the post list holds only posts of a "golang" fetch.
C9_ScenarioC_Stated ==
    (ScenarioC /\ Idle) =>
        /\ current_subreddit = "golang"
        /\ \A i \in 1..Len(posts) : posts[i][1] = "golang"

\* C9 (Scenario C as the code runs it): the second call is dropped; once idle
\* again the current feed key is "rust", and after a successful fetch the post
\* list is exactly the page of the "rust" worker.
C9_ScenarioC ==
    (ScenarioC /\ Idle) =>
        /\ current_subreddit = "rust"
        /\ hist.outcome = "ok" => OnlyPostsOf("rust", hist.cmd[1][3])

\* C9 case: Scenario C has run to idle with a successful, non-empty "rust" page
C9_Witness == ScenarioC /\ Idle /\ hist.outcome = "ok" /\ posts # <<>>

\* a step in which switch_subreddit, refresh_posts or load_more_posts is called:
\* the call is accepted (a new command) or dropped
FeedCall ==
    \/ hist'.cmd # hist.cmd /\ hist'.cmd[1][1] \in {"switch", "more"}
    \/ hist'.dropped # hist.dropped /\ hist'.dropped # None

\* the cursor and the scroll-to-top flag as the frame holds them when it makes
\* the call: the scroll area (main.rs:984-992) has written both before it calls
\* load_more_posts, the buttons write neither before switch_subreddit
after_at_call == IF hist'.dropped[1][1] = "more" THEN sentinel_after ELSE after
scroll_at_call == IF hist'.dropped[1][1] = "more" THEN FALSE ELSE scroll_to_top

\* C10: a switch_subreddit, refresh_posts or load_more_posts call made while the
\* loading flag is set is dropped: it spawns nothing and returns with the feed
\* key, post list, cursor, error, loading, initial-load and scroll-to-top cells
\* as they were when it was made; and a fetch worker only ever starts in the
\* step of the call that was accepted for it, so a dropped request never runs
\* later.
C10_DroppedWhileLoading ==
    /\ [][(loading /\ FeedCall) =>
             /\ hist'.cmd = hist.cmd /\ hist'.dropped # None
             /\ workers' = workers
             /\ UNCHANGED <<current_subreddit, posts, error_message, loading,
                            initial_load>>
             /\ after' = after_at_call
             /\ scroll_to_top' = scroll_at_call]_vars
    /\ [][\A w \in WIds : (workers[w].pc = "free" /\ workers'[w].pc # "free"
                             /\ workers'[w].kind \in {"switch", "more"})
             => /\ ~loading
                /\ hist'.cmd = Some(<<workers'[w].kind, workers'[w].key, w>>)
                /\ workers'[w].key = current_subreddit']_vars

\* C10 case: a call was made while loading was set and has been dropped
C10_Witness == hist.dropped # None /\ loading

\* a step in which load_more_posts is accepted and spawns worker w
AcceptsMore(w) == workers[w].pc = "free" /\ workers'[w].kind = "more"

\* the last accepted command is the load more of worker w and its fetch succeeded
MoreSucceeded(w) ==
    /\ hist.cmd = Some(<<"more", workers[w].key, w>>)
    /\ hist.outcome = "ok"

\* C11: an accepted load_more_posts issues its request for the feed key and with
\* the cursor stored when the call is made (no cursor exactly when none is
\* stored); when its fetch succeeds the post list becomes the previous list
\* followed by the fetched page, and the cursor it then stores is the returned
\* one.
C11_LoadMore ==
    /\ [][\A w \in WIds : AcceptsMore(w) =>
             /\ workers'[w].key = current_subreddit
             /\ workers'[w].after_token = after']_vars
    /\ [][\A w \in WIds : \A n \in 0..MaxPage, new_after \in {None, Some(w)} :
             (workers[w].kind = "more" /\ FetchOk(w, n, new_after)) =>
                 posts' = posts \o Page(workers[w].key, w, n)]_vars
    /\ [](\A w \in WIds :
             (workers[w].kind = "more" /\ workers[w].pc = "clr_loading"
                /\ MoreSucceeded(w)) => after = hist.returned)

\* C11 case: a switch returned page1 with a cursor, the load more issued with that
\* cursor has succeeded, and the list is page1 followed by page2
C11_Witness ==
    \E w \in WIds :
        /\ workers[w].kind = "more" /\ workers[w].pc = "clr_loading"
        /\ MoreSucceeded(w)
        /\ workers[w].after_token \notin {None, EmptyCursor}
        /\ Len(posts) = 2 /\ posts[1][2] # w /\ posts[2][2] = w

\* list a is a prefix of list b
IsPrefix(a, b) == Len(a) <= Len(b) /\ SubSeq(b, 1, Len(a)) = a

\* worker w is a load more triggered with no cursor stored over a non-empty list
\* (it carries the marker of main.rs:990) and its fetch has not completed
SentinelMorePending(w) ==
    /\ workers[w].kind = "more"
    /\ workers[w].after_token = EmptyCursor
    /\ workers[w].pc \in {"acquire", "auth_locked", "fetch"}

\* C12: when load_more_posts is triggered with no cursor stored and a non-empty
\* post list, no step from the trigger to the completion of its fetch replaces
\* or removes posts: the list before every such step is a prefix of the list
\* after it, so the list before the trigger is a prefix of the list after
\* completion.
C12_NoWipe ==
    [][(\E w \in WIds : SentinelMorePending(w)) => IsPrefix(posts, posts')]_vars

\* C13 (P5 trigger cooldown): while the cooldown started by a scroll trigger has
\* not expired, no step (whatever near-bottom signals the frames report) starts
\* a load_more_posts worker or a further cooldown, and the cooldown flag stays
\* set: at most one fetch is started per cooldown window.
C13_Cooldown ==
    /\ [](timers > 0 => is_loading_more)
    /\ [][timers > 0 => (timers' <= timers /\ \A w \in WIds : ~AcceptsMore(w))]_vars

\* C13 case: the cooldown window is open and the triggered fetch is over, so a
\* near-bottom frame over the posts shown would otherwise trigger again
C13_Witness ==
    /\ timers > 0 /\ ~loading /\ ~show_settings /\ posts # <<>>
    /\ hist.cmd # None /\ hist.cmd[1][1] = "more" /\ hist.outcome # ""

\* the frame shows the scroll area (main.rs:931, 941, 949)
ScrollAreaShown == ~(initial_load /\ loading_now) /\ posts # <<>>

\* the frame takes the scroll path: it sets the cooldown flag and calls
\* load_more_posts (main.rs:980-994)
Triggered == ~is_loading_more /\ is_loading_more'

\* C14: a frame showing the scroll area triggers load_more_posts exactly when
\* the distance to the bottom is below 1500, the loading flag is not set and the
\* cooldown flag is not set; at a distance of 1500 or more it starts no fetch
\* and changes neither the cursor nor the cooldown flag.
C14_TriggerCondition ==
    [][\A distance \in Distances : (MainFrame(distance) /\ ScrollAreaShown) =>
          /\ Triggered <=> (distance < THRESHOLD /\ ~loading /\ ~is_loading_more)
          /\ distance >= THRESHOLD =>
                 (~SpawnsFetch /\ UNCHANGED <<after, is_loading_more>>)]_vars

\* C15: refresh_posts changes the state as switch_subreddit called with the
\* current key does: while loading it changes nothing and starts nothing;
\* otherwise the key stays, loading, initial_load and scroll_to_top are set,
\* cursor and error are cleared, the posts are kept, and exactly one worker is
\* started, a switch worker for the current key carrying no cursor.
C15_RefreshIsSwitch ==
    [][RefreshClick =>
          IF loading
          THEN UNCHANGED <<app, current_subreddit, workers>>
          ELSE /\ current_subreddit' = current_subreddit
               /\ loading' /\ initial_load' /\ scroll_to_top'
               /\ after' = None /\ error_message' = None
               /\ posts' = posts
               /\ \E w \in WIds :
                     /\ AcceptsSwitch(w)
                     /\ workers'[w].key = current_subreddit
                     /\ workers'[w].after_token = None
                     /\ \A v \in WIds \ {w} : workers'[v] = workers[v]]_vars

\* a refresh of a subreddit feed is in flight: the posts shown are those of an
\* earlier switch to "rust" and the accepted command is again a switch to it
C15_Witness ==
    \E w \in WIds :
        /\ hist.cmd = Some(<<"switch", "rust", w>>)
        /\ workers[w].kind = "switch" /\ workers[w].pc = "acquire"
        /\ workers[w].key = current_subreddit /\ workers[w].after_token = None
        /\ posts # <<>> /\ posts[1][1] = "rust" /\ posts[1][2] # w

\* worker w takes a step of its own
Steps(w) == workers'[w] # workers[w] /\ workers[w].pc \notin {"free", "done"}

\* the messages the failure of the step at pc can store (main.rs:400, 409, 441,
\* 466, 476, 492, 508, 627, 636, 664, 1156, 1166, 1182)
FailureMessages(pc) ==
    CASE pc \in {"auth", "auth_locked"} -> {Some(ErrCreate), Some(ErrAuth)}
      [] pc = "fetch_subs" -> {Some(ErrSubs)}
      [] pc = "fetch" -> {Some(ErrPosts)}
      [] OTHER -> {}

\* C16: a worker of startup, Save, switch_subreddit or load_more_posts that
\* fails at client construction, authentication, the subscription-list fetch or
\* the listing fetch stores the message of that failure as the error; from
\* there to its return it writes neither the posts nor the cursor nor the
\* error, it clears loading (after which switch_subreddit and load_more_posts
\* accept a call) and initial_load; once no worker runs both flags are clear.
C16_FailureHandling ==
    /\ [][\A w \in WIds :
            (workers[w].kind \in FetchKinds /\ ~workers[w].failed
                /\ workers'[w].failed) =>
                /\ error_message' \in FailureMessages(workers[w].pc)
                /\ posts' = posts /\ after' = after]_vars
    /\ [][\A w \in WIds :
            (workers[w].kind \in FetchKinds /\ workers[w].failed /\ Steps(w)) =>
                /\ UNCHANGED <<posts, after, error_message>>
                /\ workers[w].pc = "clr_loading" =>
                       (~loading' /\ ~switch_busy' /\ ~load_more_busy')
                /\ workers'[w].pc = "done" => ~initial_load']_vars
    /\ [](Idle => (~loading /\ ~initial_load))

\* the worker started by Save has failed at the subscription-list fetch and
\* returned: its message is the error, the flags are clear and the post of the
\* startup load is still shown
C16_Witness ==
    /\ Idle /\ hist.cmd # None /\ hist.cmd[1][1] = "save" /\ hist.outcome = "err"
    /\ error_message = Some(ErrSubs)
    /\ ~loading /\ ~initial_load
    /\ posts # <<>> /\ after = None

\* the closure of worker w returns without having taken an error path
CompletesOk(w) == Steps(w) /\ workers'[w].pc = "done" /\ ~workers[w].failed

\* C17: a switch_subreddit, refresh_posts or load_more_posts that completes
\* successfully leaves the error absent, and a stored error is removed only by
\* such an operation (from its accepted call to its completion) or by a
\* dismissal of the user (settings button, Save).
C17_ErrorCleared ==
    /\ [][\A w \in WIds :
            (workers[w].kind \in {"switch", "more"} /\ CompletesOk(w)) =>
                error_message' = None]_vars
    /\ [][(error_message # None /\ error_message' = None) =>
            \/ SettingsClick \/ SaveClick
            \/ \E w \in WIds :
                  \/ AcceptsSwitch(w) \/ AcceptsMore(w)
                  \/ workers[w].kind \in {"switch", "more"} /\ CompletesOk(w)]_vars

\* a thread that issues network requests is started
StartsWorker == \E w \in WIds : workers[w].pc = "free" /\ workers'[w].pc # "free"

\* the user acts: refresh, a feed link, a scroll signal, Save
UserAction ==
    \/ RefreshClick
    \/ \E subreddit \in {HOME, "rust", "golang"} : NavClick(subreddit)
    \/ MainContent
    \/ SaveClick

\* C18: once the last accepted operation has failed at its authentication,
\* listing fetch or subscription-list fetch, a new worker is started only by a
\* user action (refresh, feed link, scroll signal, Save), never by a frame alone.
C18_NoAutomaticRetry ==
    [][(hist.outcome = "err" /\ StartsWorker) => UserAction]_vars

\* C19: when the listing fetch of the worker started by Save has succeeded
\* (only the flags are left for it to clear), the current key is "home", the
\* posts are exactly the home page it fetched and the cursor is the one that
\* fetch returned.
C19_SaveLoadsHome ==
    \A w \in WIds :
        (workers[w].kind = "save" /\ ~workers[w].failed
            /\ workers[w].pc = "clr_loading") =>
            /\ current_subreddit = HOME
            /\ OnlyPostsOf(HOME, w)
            /\ after = workers[w].new_after

\* the response carries a structured error field
HasErrorField(resp) == resp.body = "object" /\ resp.error.type = "string"

\* the response body contains an access token field
HasTokenField(resp) == resp.body = "object" /\ resp.access_token.type # "absent"

\* C20: authenticate returns the provider's error string as its error whenever
\* the response carries a structured error field, whatever the status; the
\* status error for a non-success status without such a field; and Ok only
\* when the body contains an access token field.
C20_Authenticate ==
    hist.auth # None =>
        LET resp == hist.auth[1].response
            result == hist.auth[1].result
        IN  /\ HasErrorField(resp) => result = ProviderRejected(resp.error.value)
            /\ (~is_success(resp.status) /\ ~HasErrorField(resp)) =>
                   result = HttpStatus(resp.status)
            /\ result = AuthOk => HasTokenField(resp)

\* C21: a listing or subscription-list fetch on a client without access token
\* returns the not-authenticated error and sends no request; with a token, a
\* non-success status and an undecodable body each return their own error; and
\* no failure returns posts, names or a cursor.
C21_FetchErrors ==
    hist.fetch # None =>
        LET c == hist.fetch[1]
            resp == c.response
            result == c.call.result
        IN  /\ c.token = None =>
                   (result = NotAuthenticated /\ c.call.requests = <<>>)
            /\ (c.token # None /\ resp.body # "no_response"
                   /\ ~is_success(resp.status)) =>
                   result = FetchFailed(resp.status)
            /\ (c.token # None /\ is_success(resp.status) /\ resp.body = "text") =>
                   result = ParseListingFailed
            /\ result.kind # "Ok" => (result.value = <<>> /\ result.after = None)
            /\ result.kind = "Ok" =>
                   (c.token # None /\ is_success(resp.status)
                       /\ resp.body = "listing" /\ Len(c.call.requests) = 1)

\* get_home_feed was called on a client without token, with a server that
\* would have answered with a post and a cursor
C21_Witness ==
    /\ hist.fetch # None
    /\ hist.fetch[1].fn = "get_home_feed" /\ hist.fetch[1].token = None
    /\ hist.fetch[1].response.body = "listing" /\ hist.fetch[1].response.n = 1
    /\ is_success(hist.fetch[1].response.status)
    /\ hist.fetch[1].call.result = NotAuthenticated

\* C22: the client's access token changes only in a call of authenticate that
\* succeeds, which leaves it at the token of that response; a failed
\* authenticate and every fetch leave it as it was.
C22_TokenWrites ==
    /\ [][reddit_client' # reddit_client =>
            \E resp \in Responses :
                AuthenticateResponse(resp) /\ authenticate(resp) = AuthOk]_vars
    /\ [][\A resp \in Responses : AuthenticateResponse(resp) =>
            IF authenticate(resp) = AuthOk
            THEN reddit_client' = Some(resp.access_token.value)
            ELSE reddit_client' = reddit_client]_vars
    /\ [][(hist'.fetch # None /\ hist' # hist) => reddit_client' = reddit_client]_vars

\* the client holds the second token and its last call was an authenticate
\* that failed on a response carrying no token
C22_Witness ==
    /\ reddit_client = Some("access_token_2")
    /\ hist.auth # None /\ hist.auth[1].result = ParseFailed
    /\ hist.auth[1].response.access_token = Absent

\* worker w receives the subscription list and stores it
StoresSubreddits(w) ==
    /\ workers[w].pc = "fetch_subs" /\ workers'[w].pc = "clr_ls"
    /\ ~workers'[w].failed

\* C23: once a subscription-list fetch has returned s1..sn the navigation bar
\* lists "home" followed by s1..sn in that order, and in every state "home"
\* is listed exactly once.
C23_FeedList ==
    /\ [][\A w \in WIds : StoresSubreddits(w) =>
            \E l \in SubscribedLists : feed_list' = <<HOME>> \o l]_vars
    /\ [](Cardinality({i \in DOMAIN feed_list : feed_list[i] = HOME}) = 1)

\* worker w has installed the posts of its fetch and has not yet written the
\* cursor or cleared loading
HalfPublished(w) ==
    /\ workers[w].kind \in FetchKinds /\ ~workers[w].failed
    /\ workers[w].pc \in {"ok_after", "clr_loading"}
    /\ \E i \in DOMAIN posts : posts[i][2] = w

\* C24: a fetch completion is one atomic step for the render thread: whenever
\* the posts of a completed fetch are installed while the cursor or the loading
\* flag still has its earlier value, the worker holds the posts mutex, so that
\* no frame can read that post list.
C24_AtomicPublish == \A w \in WIds : HalfPublished(w) => posts_lock = w

\* worker w fetches posts and has not yet published a result or an error
Unpublished(w) ==
    /\ workers[w].kind \in FetchKinds
    /\ workers[w].pc \in {"auth", "acquire", "auth_locked", "fetch_subs", "clr_ls",
                          "fetch"}

\* C25: loading is set before a fetch worker is spawned and cleared only when
\* that worker completes: while a worker that fetches posts has not yet
\* published its result, loading is set.
C25_BusyFlag == \A w \in WIds : Unpublished(w) => loading

\* the fetch of the accepted switch_subreddit of worker w is in flight
SwitchInFlight(w) ==
    workers[w].kind = "switch" /\ workers[w].pc \in {"acquire", "auth_locked", "fetch"}

\* C26: initial_load set implies loading set, and while the fetch of an
\* accepted switch_subreddit is in flight both flags are set.
C26_LoadingState ==
    /\ initial_load => loading
    /\ \A w \in WIds : SwitchInFlight(w) => (loading /\ initial_load)

\* C27: a worker of switch_subreddit, load_more_posts or load_subreddits
\* authenticates only if no client was stored when it took the reddit_client
\* mutex, which it holds during the call, and a stored client is never removed.
C27_LazyAuth ==
    /\ [](\A w \in WIds : workers[w].pc = "auth_locked" =>
             /\ workers[w].kind \in {"switch", "more", "subs"}
             /\ reddit_client = None /\ client_lock = w)
    /\ [][\A w \in WIds :
            (workers[w].kind \in {"switch", "more", "subs"}
                /\ workers[w].pc = "acquire" /\ Steps(w)) =>
                IF reddit_client = None
                THEN workers'[w].pc = "auth_locked"
                ELSE workers'[w].pc \in {"fetch", "fetch_subs"}]_vars
    /\ [][reddit_client # None => reddit_client' # None]_vars

\* the startup authentication failed and the worker of a refresh authenticates
\* under the mutex
C27_Witness ==
    \E w \in WIds :
        /\ workers[w].kind = "switch" /\ workers[w].pc = "auth_locked"
        /\ client_lock = w /\ reddit_client = None
        /\ error_message = None /\ hist.cmd = Some(<<"switch", HOME, w>>)

\* worker w calls authenticate in this step, with the credentials it cloned
\* when it was spawned
CallsAuthenticate(w) == workers[w].pc \in {"auth", "auth_locked"} /\ Steps(w)

\* C28: every call of authenticate sends the credentials loaded at startup or
\* those last stored by Save, never an edit of the settings form that was not
\* saved.
C28_SavedCredentials ==
    [][\A w \in WIds : CallsAuthenticate(w) =>
          workers[w].settings \in {0, keyring}]_vars

\* ------------------------------------------------------------------- locks
\* the render thread, next to the worker ids (no worker has id 0)
RenderThread == 0

Threads == WIds \cup {RenderThread}

\* the cells whose guard a thread keeps across statements: posts (main.rs:428
\* to 439, 940 to the end of the frame) and reddit_client (393-418, 557-581,
\* 620-645, 1175-1186); every other guard is a temporary of one statement
Holds(t) ==
    IF t = RenderThread THEN {}
    ELSE {c \in {"posts"} : posts_lock = t} \cup {c \in {"reddit_client"} : client_lock = t}

\* a load-more worker whose Ok arm takes the session cell under the posts guard
\* (mutation of acquires)
acquires_session_in_arm(t) ==
    IF t = RenderThread
    THEN {"error_message", "scroll_to_top", "posts", "loading", "subreddits",
          "loading_subreddits", "current_subreddit", "initial_load",
          "is_loading_more", "after"}
    ELSE CASE workers[t].pc = "auth" -> {"error_message", "reddit_client"}
           [] workers[t].pc = "acquire" -> {"reddit_client"}
           [] workers[t].pc = "auth_locked" -> {"error_message"}
           [] workers[t].pc = "fetch_subs" -> {"subreddits", "error_message"}
           [] workers[t].pc \in {"clr_ls", "clr_ls_err"} -> {"loading_subreddits"}
           [] workers[t].pc = "fetch" -> {"posts", "error_message"}
           [] workers[t].pc = "ok_after" -> {"after", "reddit_client"}
           [] workers[t].pc = "clr_loading" -> {"loading"}
           [] workers[t].pc = "clr_initial" -> {"initial_load"}
           [] OTHER -> {}

\* the cells the next statements of thread t lock: a frame of update
\* (main.rs:524-536, 698, 704, 757, 769-770, 807, 908-916, 930, 940-990 with
\* load_more_posts 373-379 and switch_subreddit 597-606), or the statement a
\* worker stands before (482, 1172-1175; 393, 557, 620; 400, 409; 488-492,
\* 584-588; 489-493; 428, 441, 503, 508, 655, 664, 1177, 1182; 436, 659;
\* 437; 438)
acquires(t) ==
    IF t = RenderThread
    THEN {"error_message", "scroll_to_top", "posts", "loading", "subreddits",
          "loading_subreddits", "current_subreddit", "initial_load",
          "is_loading_more", "after"}
    ELSE CASE workers[t].pc = "auth" -> {"error_message", "reddit_client"}
           [] workers[t].pc = "acquire" -> {"reddit_client"}
           [] workers[t].pc = "auth_locked" -> {"error_message"}
           [] workers[t].pc = "fetch_subs" -> {"subreddits", "error_message"}
           [] workers[t].pc \in {"clr_ls", "clr_ls_err"} -> {"loading_subreddits"}
           [] workers[t].pc = "fetch" -> {"posts", "error_message"}
           [] workers[t].pc = "ok_after" -> {"after"}
           [] workers[t].pc = "clr_loading" -> {"loading"}
           [] workers[t].pc = "clr_initial" -> {"initial_load"}
           [] OTHER -> {}

\* the next step of worker w (one thread of WorkerStep)
WorkerStepOf(w) ==
    \/ Authenticate(w)
    \/ Acquire(w)
    \/ AuthLocked(w)
    \/ FetchSubs(w)
    \/ ClearLoadingSubs(w)
    \/ FetchPosts(w)
    \/ StoreAfter(w)
    \/ ClearLoading(w)
    \/ ClearInitialLoad(w)

\* thread t may have to wait for a cell thread u holds
WaitsFor(t, u) == acquires(t) \cap Holds(u) # {}

\* the threads t may wait for, directly or through the threads they wait for
RECURSIVE WaitChain(_, _)
WaitChain(from, n) ==
    IF n = 0 THEN from
    ELSE WaitChain(from \cup {u \in Threads : \E t \in from : WaitsFor(t, u)}, n - 1)

WaitsOn(t) == WaitChain({u \in Threads : WaitsFor(t, u)}, Cardinality(Threads))

Fairness == \A w \in WIds : WF_vars(WorkerStepOf(w))

SpecFeedFair == Init /\ [][NextFeed]_vars /\ Fairness

SpawnsWorker == \E w \in WIds : workers[w].pc = "free" /\ workers'[w].pc # "free"

\* C31: while has_credentials is false no worker (authentication, listing
\* fetch, subscription-list fetch) exists and loading is clear, and no step of
\* a frame starts one except the Save that sets has_credentials
C31_NoCredentials ==
    /\ [](~has_credentials => (~loading /\ \A w \in WIds : workers[w].pc = "free"))
    /\ [][(~has_credentials /\ (SpawnsWorker \/ loading')) => has_credentials']_vars

\* the form has been used without credentials (a failed Save or an edit) and
\* the controller is still idle
C31_Witness ==
    /\ ~has_credentials
    /\ error_message = Some(ErrSave) \/ settings > 0
    /\ ~loading /\ \A w \in WIds : workers[w].pc = "free"

\* -------------------------------------------------------------- feed purity
\* no worker that fetches posts is alive
NoFetchInFlight == \A w \in Live : workers[w].kind \notin FetchKinds

\* C32: in every state with no fetch in flight, every post of the list was
\* returned by a fetch issued for the current feed key: no post of a previous
\* feed, or of the home fetch of a Save, is in the list shown for another key
C32_FeedPurity ==
    NoFetchInFlight => \A i \in 1..Len(posts) : posts[i][1] = current_subreddit

\* ---------------------------------------------------------------- cooldown
\* C33: is_loading_more is set exactly when one cooldown thread is pending and
\* never more than one is; a pending thread can always run, whatever the
\* load_more_posts of its trigger started or finished, and when it runs it
\* clears the flag
C33_Cooldown ==
    /\ [](timers \in {0, 1} /\ (is_loading_more <=> timers = 1))
    /\ [](timers > 0 => ENABLED TimerFire)
    /\ [][timers' < timers => (is_loading_more /\ ~is_loading_more')]_vars

\* the cooldown thread has cleared the flag while the load-more worker of its
\* trigger is still fetching
C33_Witness ==
    /\ timers = 0 /\ ~is_loading_more
    /\ \E w \in Live : workers[w].kind = "more" /\ workers[w].pc = "fetch"

\* ------------------------------------------------------ subscription fetches
\* worker w has called get_subscribed_subreddits and the call has not returned
\* (main.rs:486, 582)
SubsInFlight(w) == workers[w].pc = "fetch_subs"

\* C34: at most one subscription-list fetch is in flight at any time, those of
\* load_subreddits workers and of authenticate_and_load counted together, and
\* loading_subreddits is set whenever one is in flight
C34_OneSubsFetch ==
    /\ Cardinality({w \in WIds : SubsInFlight(w)}) <= 1
    /\ (\E w \in WIds : SubsInFlight(w)) => loading_subreddits

\* ------------------------------------------------------------- end of feed
\* the last accepted command has completed with a page for the current feed
\* whose next-cursor is absent, the list is not empty and no fetch is in flight
EndOfFeed ==
    /\ hist.cmd # None /\ hist.cmd[1][2] = current_subreddit
    /\ hist.outcome = "ok" /\ hist.returned = None
    /\ posts # <<>>
    /\ NoFetchInFlight

\* C35: once a completed fetch for the current feed has returned an absent
\* next-cursor with a non-empty post list, no frame's scroll trigger starts a
\* load-more worker for that feed, so the post list stops growing until a
\* switch_subreddit or refresh_posts
C35_StopsAtEnd ==
    [][EndOfFeed => ~(\E w \in WIds : /\ workers[w].pc = "free"
                                       /\ workers'[w].kind = "more")]_vars

====
